---- MODULE Spec2Model ----
(***************************************************************************)
(* Model of the Gemini chatbot: the proxy service (src/server/index.js)    *)
(* and the chat client (src/src/app/page.js).                              *)
(*                                                                         *)
(* A JavaScript string is a sequence of one-character tokens, so that      *)
(* String.prototype.trim is computed and not assumed.  A JavaScript value  *)
(* is a record [t, s, n]: its typeof tag, its characters when it is a      *)
(* string, its number when it is a number.                                 *)
(***************************************************************************)
EXTENDS Integers, Sequences, FiniteSets, TLC

VARIABLES
    spc,        \* proxy: position of the request being served
    req,        \* proxy: the request being served
    res,        \* proxy: the response sent for it (status 0: none sent)
    fileExists, \* proxy: the multer temporary file of the request is on disk
    calls,      \* proxy: calls made to the external API for the request
    chat,       \* proxy: the conversation context created by genAI.chats.create
    messages,   \* client: useState messages
    isLoading,  \* client: useState isLoading
    storage,    \* client: localStorage entry "gemini-chat-history"
    inflight    \* client: fetch calls sent and not yet handled

vars == <<spc, req, res, fileExists, calls, chat, messages, isLoading, storage, inflight>>
serverVars == <<spc, req, res, fileExists, calls, chat>>
clientVars == <<messages, isLoading, storage, inflight>>

----------------------------------------------------------------------------
(* Bounds of the model *)

MaxHistLen == 11
MaxLimit == 3
MaxMessages == 4

----------------------------------------------------------------------------
(* JavaScript values *)

Undef == [t |-> "undefined", s |-> <<>>, n |-> 0]
Null == [t |-> "null", s |-> <<>>, n |-> 0]
Str(s) == [t |-> "string", s |-> s, n |-> 0]
Num(n) == [t |-> "number", s |-> <<>>, n |-> n]

\* ToBoolean, as used by `!prompt`, `a || b` and `if (savedMessages)`
Truthy(v) ==
    CASE v.t = "string" -> v.s # <<>>
      [] v.t = "number" -> v.n # 0
      [] OTHER -> FALSE

RECURSIVE TrimStart(_)
TrimStart(s) == IF s # <<>> /\ Head(s) = " " THEN TrimStart(Tail(s)) ELSE s

RECURSIVE TrimEnd(_)
TrimEnd(s) ==
    IF s # <<>> /\ s[Len(s)] = " " THEN TrimEnd(SubSeq(s, 1, Len(s) - 1)) ELSE s

\* String.prototype.trim
Trim(s) == TrimEnd(TrimStart(s))

\* a || b
OrElse(a, b) == IF Truthy(a) THEN a ELSE b

\* Array.prototype.slice(start) with an integer start
Slice(a, start) ==
    LET k == IF start < 0
             THEN (IF Len(a) + start < 0 THEN 0 ELSE Len(a) + start)
             ELSE (IF start > Len(a) THEN Len(a) ELSE start)
    IN SubSeq(a, k + 1, Len(a))

----------------------------------------------------------------------------
(* Proxy service: the requests it can receive *)

\* An entry of the history field: an object with a role and a text, null, or
\* a number.  role "absent" stands for a missing role property.
Obj(role, text) == [t |-> "object", role |-> role, text |-> text]
NullEntry == [t |-> "null", role |-> "absent", text |-> Undef]
NumEntry == [t |-> "number", role |-> "absent", text |-> Undef]

\* The history field: a JSON array, a JSON object (items under its keys, len
\* its "length" property, -1 when it has none), a string of len characters,
\* a number, null, or omitted.
Arr(items) == [kind |-> "array", items |-> items, len |-> Len(items)]
ObjHist(items, len) == [kind |-> "object", items |-> items, len |-> len]
StrHist(len) == [kind |-> "string", items |-> <<>>, len |-> len]
NumHist == [kind |-> "number", items |-> <<>>, len |-> -1]
NullHist == [kind |-> "null", items |-> <<>>, len |-> -1]
NoHist == [kind |-> "undefined", items |-> <<>>, len |-> -1]

Text(i) == [j \in 1..i |-> "a"]
ConvEntry(i) == Obj(IF i % 2 = 1 THEN "user" ELSE "model", Str(Text(i)))
Conv(n) == [i \in 1..n |-> ConvEntry(i)]

BadEntries ==
    { Obj("system", Str(<<"a">>)), Obj("absent", Str(<<"a">>)),
      Obj("user", Str(<<>>)), Obj("model", Str(<<" ">>)),
      Obj("user", Num(1)), Obj("model", Undef), NullEntry, NumEntry }

ValidHistories == { Arr(Conv(n)) : n \in 0..MaxHistLen }
BadArrays ==
    UNION { { Arr([Conv(n) EXCEPT ![i] = b]) : i \in 1..n, b \in BadEntries } : n \in 1..2 }
OtherShapes ==
    { ObjHist(items, len) : items \in {<<>>, Conv(1), <<Obj("system", Str(<<"a">>))>>},
                            len \in {-1, 0, 1} }
    \cup { StrHist(0), StrHist(2), NumHist, NullHist, NoHist }
Histories == ValidHistories \cup BadArrays \cup OtherShapes

Limits == {Undef, Null} \cup { Num(n) : n \in -1..MaxLimit }
ChatMessages == {Undef, Str(<<>>), Str(<<" ">>), Str(<<"h", "i">>), Num(7)}
Prompts == {Undef, Str(<<>>), Str(<<" ">>), Str(<<"h", "i">>), Num(0)}
MimeTypes == {Str(<<>>), Str(<<"text/plain">>)}

Request(ep, hasBody, prompt, hasFile, mime, message, history, limit) ==
    [endpoint |-> ep, hasBody |-> hasBody, prompt |-> prompt, hasFile |-> hasFile,
     mimetype |-> mime, message |-> message, history |-> history,
     historyLimit |-> limit]

NoReq == Request("none", FALSE, Undef, FALSE, Undef, Undef, NoHist, Undef)

AttachmentEndpoints ==
    {"generate-from-image", "generate-from-document", "generate-from-audio"}

\* req.body is undefined when no body was parsed (the case line 88 tests for);
\* a multipart request always has a body object, with or without a file.
Requests ==
    { Request("generate-text", TRUE, p, FALSE, Undef, Undef, NoHist, Undef) : p \in Prompts }
    \cup { Request(ep, FALSE, Undef, FALSE, Undef, Undef, NoHist, Undef) :
             ep \in AttachmentEndpoints \cup {"generate-text", "chat"} }
    \cup { Request(ep, TRUE, p, FALSE, Undef, Undef, NoHist, Undef) :
             ep \in AttachmentEndpoints, p \in {Undef, Str(<<"h", "i">>)} }
    \cup { Request(ep, TRUE, p, TRUE, m, Undef, NoHist, Undef) :
             ep \in AttachmentEndpoints, p \in {Undef, Str(<<"h", "i">>)}, m \in MimeTypes }
    \cup { Request("chat", TRUE, Undef, FALSE, Undef, m, h, l) :
             m \in ChatMessages, h \in Histories, l \in Limits }

----------------------------------------------------------------------------
(* Proxy service: responses *)

NoRes == [status |-> 0, kind |-> "none", text |-> Undef]
Json(status, kind, text) == [status |-> status, kind |-> kind, text |-> text]

\* An exception that leaves an async handler: the handler sends nothing.
\* What the client then gets depends on the express release the build
\* resolves: nothing (the rejection is unhandled) or the framework's own
\* 500 page.
EscapedResponses == {NoRes, Json(500, "html", Undef)}

Escape ==
    /\ spc' = "done"
    /\ res' \in EscapedResponses

Respond(status, kind, text) ==
    /\ spc' = "done"
    /\ res' = Json(status, kind, text)

NoChat == [created |-> FALSE, history |-> <<>>]

UpstreamTexts == {Undef, Str(<<>>), Str(<<"y", "o">>)}
UpstreamErrors == {Str(<<>>), Str(<<"quota exceeded">>)}

----------------------------------------------------------------------------
(* Proxy service: the handlers *)

\* express routing; upload.single(field) stores the uploaded file, when the
\* request carries one, under uploads/ before the handler runs
Arrive ==
    /\ spc \in {"idle", "done"}
    /\ \E r \in Requests :
        /\ req' = r
        /\ fileExists' = r.hasFile
    /\ spc' = "handler"
    /\ res' = NoRes
    /\ calls' = <<>>
    /\ chat' = NoChat
    /\ UNCHANGED clientVars

\* deletion that does not happen (the unlink is skipped)
DeleteUploadedFileSkipped(exists) == exists

\* fs.unlinkSync(filePath): the file is gone when it returns
DeleteUploadedFile(exists) == FALSE

\* genAI.models.generateContent({model, contents: [{text}, part?]})
GenerateContent(text, inline, mime) ==
    [api |-> "generateContent", text |-> text, inline |-> inline, mimeType |-> mime]

\* chat.sendMessage({message})
SendMessage(message) ==
    [api |-> "sendMessage", text |-> message, inline |-> FALSE, mimeType |-> Undef]

PostGenerateText ==
    /\ spc = "handler"
    /\ req.endpoint = "generate-text"
    /\ IF ~req.hasBody
       THEN Respond(400, "error", Str(<<"No body provided">>)) /\ UNCHANGED calls
       ELSE IF ~Truthy(req.prompt)
       THEN Respond(400, "error", Str(<<"Prompt is required">>)) /\ UNCHANGED calls
       ELSE /\ calls' = Append(calls, GenerateContent(req.prompt, FALSE, Undef))
            /\ spc' = "awaiting"
            /\ UNCHANGED res
    /\ UNCHANGED <<req, fileExists, chat>>
    /\ UNCHANGED clientVars

\* The three attachment handlers have one shape: read req.body.prompt, read
\* and delete req.file.path, and only then test !req.file.
AttachmentHandler(endpoint, defaultPrompt, defaultMime, noFileMessage) ==
    /\ spc = "handler"
    /\ req.endpoint = endpoint
    /\ IF ~req.hasBody
       THEN \* req.body.prompt: TypeError
            Escape /\ UNCHANGED <<fileExists, calls>>
       ELSE IF ~req.hasFile
       THEN \* req.file.path: TypeError, before the !req.file test is reached
            Escape /\ UNCHANGED <<fileExists, calls>>
       ELSE /\ fileExists' = DeleteUploadedFile(fileExists)
            /\ IF ~req.hasFile
               THEN Respond(400, "error", noFileMessage) /\ UNCHANGED calls
               ELSE /\ calls' = Append(calls,
                                   GenerateContent(OrElse(req.prompt, defaultPrompt), TRUE,
                                                   OrElse(req.mimetype, defaultMime)))
                    /\ spc' = "awaiting"
                    /\ UNCHANGED res
    /\ UNCHANGED <<req, chat>>
    /\ UNCHANGED clientVars

PostGenerateFromImage ==
    AttachmentHandler("generate-from-image", Str(<<"Describe the image">>),
                      Str(<<"image/png">>), Str(<<"No image file provided">>))

PostGenerateFromDocument ==
    AttachmentHandler("generate-from-document", Str(<<"Summarize the document">>),
                      Str(<<"application/pdf">>), Str(<<"No document file provided">>))

PostGenerateFromAudio ==
    AttachmentHandler("generate-from-audio", Str(<<"Transcribe the audio">>),
                      Str(<<"audio/mpeg">>), Str(<<"No audio file provided">>))

DefaultHistoryLimit == 10

\* the callback of history.every
ValidEntry(msg) ==
    /\ msg.t \in {"object", "null"}          \* typeof msg === "object"
    /\ msg.t # "null"                        \* msg !== null
    /\ msg.role \in {"user", "model"}
    /\ msg.text.t = "string"
    /\ Trim(msg.text.s) # <<>>

IsValidHistory(history) ==
    /\ history.kind = "array"
    /\ \A i \in 1..Len(history.items) : ValidEntry(history.items[i])

\* the start index of history.slice(-historyLimit): ToIntegerOrInfinity of
\* the negated limit (null negates to -0)
SliceStart(historyLimit) == IF historyLimit.t = "number" THEN 0 - historyLimit.n ELSE 0

RecentHistory(history, historyLimit) == Slice(history.items, SliceStart(historyLimit))

FormattedHistory(recentHistory) ==
    [i \in 1..Len(recentHistory) |->
        [role |-> recentHistory[i].role, parts |-> <<[text |-> recentHistory[i].text]>>]]

PostChat ==
    /\ spc = "handler"
    /\ req.endpoint = "chat"
    /\ IF ~req.hasBody
       THEN \* destructuring undefined: TypeError outside the try
            Escape /\ UNCHANGED <<calls, chat>>
       ELSE
        LET message == req.message
            history == IF req.history.kind = "undefined" THEN Arr(<<>>) ELSE req.history
            historyLimit == IF req.historyLimit.t = "undefined"
                            THEN Num(DefaultHistoryLimit) ELSE req.historyLimit
        IN  IF message.t # "string" \/ Trim(message.s) = <<>>
            THEN /\ Respond(400, "error",
                            Str(<<"Message is required and must be a non-empty string.">>))
                 /\ UNCHANGED <<calls, chat>>
            ELSE IF ~IsValidHistory(history) /\ history.kind = "null"
            THEN \* null.length: TypeError outside the try
                 Escape /\ UNCHANGED <<calls, chat>>
            ELSE IF ~IsValidHistory(history) /\ history.len > 0
            THEN /\ Respond(400, "error", Str(<<"Invalid history format.">>))
                 /\ UNCHANGED <<calls, chat>>
            ELSE IF history.kind = "array"
            THEN /\ chat' = [created |-> TRUE,
                             history |-> FormattedHistory(RecentHistory(history, historyLimit))]
                 /\ calls' = Append(calls, SendMessage(message))
                 /\ spc' = "awaiting"
                 /\ UNCHANGED res
            ELSE IF history.kind = "string"
            THEN \* "".slice(...) is a string, which has no map: caught
                 /\ Respond(500, "error", Str(<<"recentHistory.map is not a function">>))
                 /\ UNCHANGED <<calls, chat>>
            ELSE \* an object or a number has no slice: caught
                 /\ Respond(500, "error", Str(<<"history.slice is not a function">>))
                 /\ UNCHANGED <<calls, chat>>
    /\ UNCHANGED <<req, fileExists>>
    /\ UNCHANGED clientVars

\* the awaited call resolves: res.json({output: result.text})
UpstreamResolve ==
    /\ spc = "awaiting"
    /\ \E text \in UpstreamTexts : Respond(200, "output", text)
    /\ UNCHANGED <<req, fileExists, calls, chat>>
    /\ UNCHANGED clientVars

\* the awaited call rejects: the catch clause relays error.message
UpstreamReject ==
    /\ spc = "awaiting"
    /\ \E e \in UpstreamErrors :
        Respond(500, "error",
                IF req.endpoint = "chat"
                THEN OrElse(e, Str(<<"Internal Server Error">>)) ELSE e)
    /\ UNCHANGED <<req, fileExists, calls, chat>>
    /\ UNCHANGED clientVars

ServerNext ==
    \/ Arrive
    \/ PostGenerateText
    \/ PostGenerateFromImage
    \/ PostGenerateFromDocument
    \/ PostGenerateFromAudio
    \/ PostChat
    \/ UpstreamResolve
    \/ UpstreamReject

----------------------------------------------------------------------------
(* Chat client *)

ClientHistoryLimit == 10

FailedText == <<"Failed to fetch response. Please try again.">>
NoResponseText == <<"No response from Gemini.">>

Message(sender, text) == [sender |-> sender, text |-> text]

\* JSON.stringify(messages): the text of an array of {sender, text} objects,
\* kept as the sequence of its members' values
JSONstringify(msgs) == [i \in 1..Len(msgs) |-> <<msgs[i].sender, msgs[i].text>>]

\* JSON.parse of such a text
JSONparse(raw) == [i \in 1..Len(raw) |-> Message(raw[i][1], raw[i][2])]

\* localStorage: the entry is absent (getItem returns null) or holds a text
NoItem == [present |-> FALSE, raw |-> <<>>]
Item(raw) == [present |-> TRUE, raw |-> raw]

\* a persist effect that skips an empty list
PersistEffectNonEmptyOnly(item, msgs) ==
    IF msgs = <<>> THEN item ELSE Item(JSONstringify(msgs))

\* useEffect(..., [messages]): localStorage.setItem(key, JSON.stringify(messages))
PersistEffect(item, msgs) == Item(JSONstringify(msgs))

\* useEffect(..., []): the messages the mount effect loads; a stored text is
\* never empty, so `if (savedMessages)` tests that the entry exists
LoadEffect(item) == IF item.present THEN JSONparse(item.raw) ELSE <<>>

\* a form that stays enabled while a reply is awaited
FormAlwaysEnabled == TRUE

\* the form controls carry disabled={isLoading}
FormEnabled == ~isLoading

\* what the user can have typed in the input box
Inputs == { <<>>, <<" ">>, <<"h">>, <<" ", "k", " ">> }

Pending == [kind |-> "pending", ok |-> FALSE, json |-> FALSE, output |-> Undef]
Rejected == [kind |-> "rejected", ok |-> FALSE, json |-> FALSE, output |-> Undef]
Resolved(ok, json, output) == [kind |-> "resolved", ok |-> ok, json |-> json, output |-> output]

\* how a fetch can settle: a transport failure, a non-OK response, an OK
\* response whose body is not JSON, an OK response with or without output
Outcomes ==
    { Rejected, Resolved(FALSE, TRUE, Undef), Resolved(TRUE, FALSE, Undef) }
    \cup { Resolved(TRUE, TRUE, o) : o \in {Undef, Str(<<>>), Str(<<"y">>)} }

\* the reply taken from data.output with no fallback
BotReplyRaw(output) == output.s

\* data?.output || "No response from Gemini."
BotReply(output) == IF Truthy(output) THEN output.s ELSE NoResponseText

\* messagesForHistory.map((msg) => ({role: msg.sender, text: msg.text}))
HistoryOf(msgs) == [i \in 1..Len(msgs) |-> [role |-> msgs[i].sender, text |-> msgs[i].text]]

RemoveAt(s, i) == SubSeq(s, 1, i - 1) \o SubSeq(s, i + 1, Len(s))

\* the submit handler up to its await, and the render and persist effect that
\* follow the event
HandleSubmit ==
    /\ FormEnabled
    /\ Len(messages) + 2 <= MaxMessages
    /\ \E input \in Inputs :
        LET userMessage == Trim(input)
        IN  IF userMessage = <<>>
            THEN UNCHANGED clientVars
            ELSE /\ messages' = Append(messages, Message("user", userMessage))
                 /\ storage' = PersistEffect(storage, messages')
                 /\ isLoading' = TRUE
                 /\ inflight' = Append(inflight,
                        [message |-> userMessage, history |-> HistoryOf(messages),
                         historyLimit |-> ClientHistoryLimit, outcome |-> Pending])
    /\ UNCHANGED serverVars

\* the fetch promise of a request settles
FetchSettles ==
    /\ \E i \in 1..Len(inflight) :
        /\ inflight[i].outcome = Pending
        /\ \E o \in Outcomes : inflight' = [inflight EXCEPT ![i].outcome = o]
    /\ UNCHANGED <<messages, isLoading, storage>>
    /\ UNCHANGED serverVars

\* the handler resumes after an OK response with a JSON body
HandleReply ==
    /\ \E i \in 1..Len(inflight) :
        LET o == inflight[i].outcome
        IN  /\ o.kind = "resolved" /\ o.ok /\ o.json
            /\ messages' = Append(messages, Message("model", BotReply(o.output)))
            /\ inflight' = RemoveAt(inflight, i)
    /\ storage' = PersistEffect(storage, messages')
    /\ isLoading' = FALSE
    /\ UNCHANGED serverVars

\* the handler resumes in its catch clause: fetch rejected, the response was
\* not OK, or response.json() rejected
HandleFailure ==
    /\ \E i \in 1..Len(inflight) :
        LET o == inflight[i].outcome
        IN  /\ \/ o.kind = "rejected"
               \/ o.kind = "resolved" /\ ~o.ok
               \/ o.kind = "resolved" /\ o.ok /\ ~o.json
            /\ messages' = Append(messages, Message("model", FailedText))
            /\ inflight' = RemoveAt(inflight, i)
    /\ storage' = PersistEffect(storage, messages')
    /\ isLoading' = FALSE
    /\ UNCHANGED serverVars

\* Clear Chat: setMessages([]), removeItem, then the render and persist effect
ClearChat ==
    /\ messages' = <<>>
    /\ storage' = PersistEffect(NoItem, messages')
    /\ UNCHANGED <<isLoading, inflight>>
    /\ UNCHANGED serverVars

\* the page is loaded again: fresh component state, the pending fetch dies with
\* the old document, the mount effects run (load, then persist of the initial
\* list), and the loaded list is rendered and persisted
Reload ==
    LET saved == storage
        afterMount == PersistEffect(storage, <<>>)
    IN  /\ messages' = LoadEffect(saved)
        /\ storage' = IF saved.present
                      THEN PersistEffect(afterMount, messages') ELSE afterMount
    /\ isLoading' = FALSE
    /\ inflight' = <<>>
    /\ UNCHANGED serverVars

ClientNext ==
    \/ HandleSubmit
    \/ FetchSettles
    \/ HandleReply
    \/ HandleFailure
    \/ ClearChat
    \/ Reload

----------------------------------------------------------------------------
(* Specifications *)

\* the proxy before its first request; the client after its first mount in a
\* browser that holds no entry yet
Init ==
    /\ spc = "idle"
    /\ req = NoReq
    /\ res = NoRes
    /\ fileExists = FALSE
    /\ calls = <<>>
    /\ chat = NoChat
    /\ messages = <<>>
    /\ isLoading = FALSE
    /\ storage = PersistEffect(NoItem, <<>>)
    /\ inflight = <<>>

ServerSpec == Init /\ [][ServerNext]_vars

ClientSpec == Init /\ [][ClientNext]_vars

\* a settled promise's continuation always runs
ClientLiveSpec == ClientSpec /\ WF_vars(HandleReply) /\ WF_vars(HandleFailure)

----------------------------------------------------------------------------
(* Properties of the proxy service (checked under ServerSpec) *)

Finished == spc = "done"

Rejected400 == res.status = 400 /\ res.kind = "error" /\ Truthy(res.text)

\* the history the handler works on, after the destructuring default
EffectiveHistory == IF req.history.kind = "undefined" THEN Arr(<<>>) ELSE req.history

LastN(h, n) == IF Len(h) <= n THEN h ELSE SubSeq(h, Len(h) - n + 1, Len(h))

\* C1: for every valid history H and every limit N the client supplies
\* (10 when omitted), the history given to the external API is H when
\* length(H) <= N and the last N entries of H, in order, otherwise.
C1_HistoryWindow ==
    ( /\ req.endpoint = "chat"
      /\ chat.created
      /\ IsValidHistory(EffectiveHistory)
      /\ \/ req.historyLimit.t = "undefined"
         \/ req.historyLimit.t = "number" /\ req.historyLimit.n >= 0 )
    => chat.history =
         FormattedHistory(LastN(EffectiveHistory.items,
                                IF req.historyLimit.t = "undefined"
                                THEN DefaultHistoryLimit ELSE req.historyLimit.n))

\* C2: an attachment request that carries no file (here: a multipart form
\* without the file field) is answered with status 400 and {error: message},
\* and the external API is not called.
C2_NoFileRejected ==
    (Finished /\ req.endpoint \in AttachmentEndpoints /\ req.hasBody /\ ~req.hasFile)
    => (Rejected400 /\ calls = <<>>)

\* C3: for an attachment request that arrives with a file, the temporary file
\* no longer exists whenever a response has been sent, be it 200 or 500.
C3_TempFileGoneAtResponse ==
    (req.endpoint \in AttachmentEndpoints /\ req.hasFile /\ res.status # 0)
    => ~fileExists

\* a request with a file answered 500 after the external call failed
C3_Witness ==
    /\ req.endpoint \in AttachmentEndpoints /\ req.hasFile
    /\ res.status = 500 /\ calls # <<>> /\ ~fileExists

HasMalformedEntry(h) == \E i \in 1..Len(h.items) : ~ValidEntry(h.items[i])

\* C4: a /chat request whose history holds an entry with a role outside
\* {user, model} or with empty, blank or non-string text is answered 400, with
\* no conversation context created and no external call, whatever the shape of
\* the history field.
C4_MalformedHistoryRejected ==
    (Finished /\ req.endpoint = "chat" /\ HasMalformedEntry(req.history))
    => (Rejected400 /\ ~chat.created /\ calls = <<>>)

\* C5: /generate-text with an empty or missing prompt, and /chat with an
\* empty, blank, missing or non-string message, is answered 400 with
\* {error: ...}, and the external API is not called.
C5_EmptyInputRejected ==
    ( /\ Finished
      /\ \/ /\ req.endpoint = "generate-text"
            /\ req.prompt \in {Undef, Str(<<>>)}
         \/ /\ req.endpoint = "chat"
            /\ (req.message.t # "string" \/ Trim(req.message.s) = <<>>) )
    => (Rejected400 /\ calls = <<>>)

----------------------------------------------------------------------------
(* Properties of the chat client (checked under ClientSpec, C8 under
   ClientLiveSpec) *)

RECURSIVE IsSubsequence(_, _)
IsSubsequence(a, b) ==
    IF a = <<>> THEN TRUE
    ELSE IF b = <<>> THEN FALSE
    ELSE IF Head(a) = Head(b) THEN IsSubsequence(Tail(a), Tail(b))
    ELSE IsSubsequence(a, Tail(b))

IsPrefix(a, b) == Len(a) <= Len(b) /\ SubSeq(b, 1, Len(a)) = a

StoredMessages == LoadEffect(storage)

\* C6: at most one request is in flight; isLoading is true as long as one is;
\* and while isLoading is true no step starts a request.
C6_SingleFlight ==
    /\ [](Len(inflight) <= 1 /\ (inflight # <<>> => isLoading))
    /\ [][isLoading => Len(inflight') <= Len(inflight)]_vars

\* the second turn of a conversation awaiting its reply
C6_Witness == Len(inflight) = 1 /\ isLoading /\ Len(messages) >= 3

\* C7: once Clear Chat has emptied the persisted history it stays empty until
\* a new submission, so that a reload shows an empty conversation; a reply
\* that arrives after the clear puts nothing back.
C7_ClearedStaysEmpty ==
    [][(StoredMessages = <<>> /\ Len(inflight') <= Len(inflight))
        => StoredMessages' = <<>>]_vars

SubmitStep == Len(inflight') > Len(inflight)

\* a continuation ran: a request left the list and the messages changed (a
\* reload also empties the list, and leaves the messages as they were)
ContinuationStep == Len(inflight') < Len(inflight) /\ messages' # messages

SubmitAppendsUserMessage ==
    SubmitStep =>
        /\ messages' = Append(messages, Message("user", inflight'[Len(inflight')].message))
        /\ inflight'[Len(inflight')].message # <<>>
        /\ isLoading'

\* the claim's reply: the returned output on success, the placeholder otherwise
ClaimedReply(o) ==
    IF o.kind = "resolved" /\ o.ok /\ o.json THEN o.output.s ELSE FailedText

\* the reply with the fallback for an OK response without output
AmendedReply(o) ==
    IF o.kind = "resolved" /\ o.ok /\ o.json
    THEN (IF o.output.t = "string" /\ o.output.s # <<>> THEN o.output.s ELSE NoResponseText)
    ELSE FailedText

Settled == inflight # <<>> /\ inflight[1].outcome # Pending

\* C8, as claimed: a submission appends the user message and sets isLoading;
\* the continuation appends exactly one model message, the returned output on
\* success or the failure placeholder otherwise, and clears isLoading.
C8_TurnCompletionAsClaimed ==
    /\ [][SubmitAppendsUserMessage]_vars
    /\ [][ContinuationStep =>
            /\ messages' = Append(messages, Message("model", ClaimedReply(inflight[1].outcome)))
            /\ ~isLoading']_vars

\* C8, amended: the same, with the model message being the returned output
\* when it is a non-empty string, "No response from Gemini." when an OK
\* response carries no or empty output, and the failure placeholder on a
\* non-OK response, a transport failure or an unreadable body; once the fetch
\* has settled isLoading is eventually cleared.
C8_TurnCompletion ==
    /\ [][SubmitAppendsUserMessage]_vars
    /\ [][ContinuationStep =>
            /\ messages' = Append(messages, Message("model", AmendedReply(inflight[1].outcome)))
            /\ ~isLoading']_vars
    /\ [](Settled => isLoading)
    /\ (Settled ~> ~isLoading)

\* a turn completed with the fallback reply
C8_Witness ==
    /\ Len(messages) = 2 /\ ~isLoading /\ inflight = <<>>
    /\ messages[1].sender = "user"
    /\ messages[2] = Message("model", NoResponseText)

HistoryAsMessages(h) == [i \in 1..Len(h) |-> Message(h[i].role, h[i].text)]

\* C9: in every reachable state the history sent with the request in flight
\* is contained, in order, in the displayed history.  (The claim's further
\* clauses rest on this one: the displayed history growing, and the truncation
\* touching neither list, which is PostChat leaving the client unchanged.)
C9_TransmittedWithinDisplayed ==
    \A i \in 1..Len(inflight) :
        IsSubsequence(HistoryAsMessages(inflight[i].history), messages)

\* C10: the storage entry holds exactly the serialised in-memory list, a
\* reload restores that list, and no step loses or reorders a persisted
\* message other than by emptying the list (Clear Chat).
C10_PersistenceMirror ==
    /\ [](storage = Item(JSONstringify(messages)))
    /\ [](LoadEffect(storage) = messages)
    /\ [][IsPrefix(StoredMessages, StoredMessages') \/ messages' = <<>>]_vars

\* two turns persisted, the first answered by the failure placeholder
C10_Witness ==
    /\ Len(messages) = 4
    /\ messages[2] = Message("model", FailedText)
    /\ messages[4].sender = "model"
    /\ storage = Item(JSONstringify(messages))

====
